---- MODULE Spec2Model ----
(***************************************************************************)
(* Model of the Scheduler class of src/scheduler.py: the calendar index    *)
(* built at construction and the four read-only queries over it.           *)
(*                                                                         *)
(* Representation.  A Python str is the sequence of its code points, so    *)
(* "09:30" is <<48,57,58,51,48>>; str comparison is Python's lexicographic *)
(* comparison of code points.  A tuple or list is a sequence, a dict is a  *)
(* function (a record when its keys are field names), None is <<>>.        *)
(***************************************************************************)
EXTENDS Integers, Sequences, FiniteSets, TLC

(***************************************************************************)
(* data, days, timeslots: the attributes self.data, self.days and          *)
(*   self.timeslots of the Scheduler.                                      *)
(* status: "fetched" (_fetch_data has returned, __init__ goes on),         *)
(*   "failed" (__init__ raised KeyError; the attributes assigned before    *)
(*   the error stay on the object), "ready" (the engine awaits a           *)
(*   query), "returned" (a query returned result), "raised" (a query       *)
(*   raised KeyError).                                                     *)
(* call: the last query and its arguments.  result: the value it returned. *)
(***************************************************************************)
VARIABLES data, days, timeslots, status, call, result

vars == <<data, days, timeslots, status, call, result>>

(***************************************************************************)
(* Bounds of the model.                                                    *)
(***************************************************************************)
MaxSlots == 2
MaxLen == 3
MaxDurationSteps == 8

(***************************************************************************)
(* Code points used by the time and date formats.                          *)
(***************************************************************************)
OrdZero == 48
OrdColon == 58
OrdDash == 45

None == <<>>

(***************************************************************************)
(* Python str comparison  a < b, a <= b  and max(a, b).                    *)
(***************************************************************************)
StrLt(a, b) ==
    \/ \E i \in 1..Len(a) :
          /\ i <= Len(b)
          /\ SubSeq(a, 1, i - 1) = SubSeq(b, 1, i - 1)
          /\ a[i] < b[i]
    \/ /\ Len(a) < Len(b)
       /\ a = SubSeq(b, 1, Len(a))

StrLe(a, b) == a = b \/ StrLt(a, b)

StrMax(a, b) == IF StrLt(a, b) THEN b ELSE a

IntMax(a, b) == IF b > a THEN b ELSE a

(***************************************************************************)
(* int(s) for a str of decimal digits.                                     *)
(***************************************************************************)
RECURSIVE ParseInt(_)
ParseInt(s) ==
    IF s = <<>> THEN 0
    ELSE 10 * ParseInt(SubSeq(s, 1, Len(s) - 1)) + (s[Len(s)] - OrdZero)

(***************************************************************************)
(* format(n, "02d") for n >= 0: the decimal digits, zero-padded to two.    *)
(***************************************************************************)
RECURSIVE Digits(_)
Digits(n) ==
    IF n < 10 THEN <<OrdZero + n>>
    ELSE Append(Digits(n \div 10), OrdZero + (n % 10))

Format02d(n) == IF n < 10 THEN <<OrdZero, OrdZero + n>> ELSE Digits(n)

(***************************************************************************)
(* time_str.split(':') for a str holding one colon.                        *)
(***************************************************************************)
SplitColon(s) ==
    LET p == CHOOSE i \in 1..Len(s) : s[i] = OrdColon
    IN  <<SubSeq(s, 1, p - 1), SubSeq(s, p + 1, Len(s))>>

_time_to_minutes(time_str) ==
    LET parts == SplitColon(time_str)
        hours == ParseInt(parts[1])
        minutes == ParseInt(parts[2])
    IN  hours * 60 + minutes

_minutes_to_time(minutes) ==
    LET hours == minutes \div 60
        mins == minutes % 60
    IN  Format02d(hours) \o <<OrdColon>> \o Format02d(mins)

_parse_time_range(start, end) ==
    <<_time_to_minutes(start), _time_to_minutes(end)>>

(***************************************************************************)
(* sorted(slots, key=lambda x: x[0]): a stable sort on the start str.      *)
(***************************************************************************)
RECURSIVE InsertByStart(_, _)
InsertByStart(sorted, x) ==
    IF sorted = <<>> THEN <<x>>
    ELSE IF StrLt(x[1], sorted[Len(sorted)][1])
         THEN Append(InsertByStart(SubSeq(sorted, 1, Len(sorted) - 1), x),
                     sorted[Len(sorted)])
         ELSE Append(sorted, x)

RECURSIVE SortedByStart(_)
SortedByStart(slots) ==
    IF slots = <<>> THEN <<>>
    ELSE InsertByStart(SortedByStart(SubSeq(slots, 1, Len(slots) - 1)),
                       slots[Len(slots)])

(***************************************************************************)
(* The loop of _merge_overlapping_slots over sorted_slots[1:].             *)
(***************************************************************************)
(* The loop with the overlap test made strict: touching intervals are
   kept apart. *)
RECURSIVE MergeLoop_strict(_, _)
MergeLoop_strict(merged, rest) ==
    IF rest = <<>> THEN merged
    ELSE LET current == Head(rest)
             last == merged[Len(merged)]
         IN  IF StrLt(current[1], last[2])
             THEN MergeLoop_strict([merged EXCEPT ![Len(merged)] =
                                       <<last[1], StrMax(last[2], current[2])>>],
                                   Tail(rest))
             ELSE MergeLoop_strict(Append(merged, current), Tail(rest))

(* The loop storing the merged interval in merged[0], not merged[-1]. *)
RECURSIVE MergeLoop_first(_, _)
MergeLoop_first(merged, rest) ==
    IF rest = <<>> THEN merged
    ELSE LET current == Head(rest)
             last == merged[Len(merged)]
         IN  IF StrLe(current[1], last[2])
             THEN MergeLoop_first([merged EXCEPT ![1] =
                                      <<last[1], StrMax(last[2], current[2])>>],
                                  Tail(rest))
             ELSE MergeLoop_first(Append(merged, current), Tail(rest))

RECURSIVE MergeLoop(_, _)
MergeLoop(merged, rest) ==
    IF rest = <<>> THEN merged
    ELSE LET current == Head(rest)
             last == merged[Len(merged)]
         IN  IF StrLe(current[1], last[2])
             THEN MergeLoop([merged EXCEPT ![Len(merged)] =
                                <<last[1], StrMax(last[2], current[2])>>],
                            Tail(rest))
             ELSE MergeLoop(Append(merged, current), Tail(rest))

_merge_overlapping_slots(slots) ==
    IF slots = <<>> THEN <<>>
    ELSE LET sorted_slots == SortedByStart(slots)
         IN  MergeLoop(<<sorted_slots[1]>>, Tail(sorted_slots))

(***************************************************************************)
(* Scheduler.__init__: self.days = {day['date']: day for day in days}.     *)
(* A later day of the same date replaces an earlier one.                   *)
(***************************************************************************)
LastIndexOfDate(raw_days, date) ==
    CHOOSE i \in 1..Len(raw_days) :
        /\ raw_days[i].date = date
        /\ \A j \in (i + 1)..Len(raw_days) : raw_days[j].date # date

BuildDays(raw) ==
    [date \in {raw.days[i].date : i \in 1..Len(raw.days)} |->
        raw.days[LastIndexOfDate(raw.days, date)]]

(***************************************************************************)
(* next((day['date'] for day in days if day['id'] == day_id), None)        *)
(***************************************************************************)
RECURSIVE DateOfDayId(_, _)
DateOfDayId(raw_days, day_id) ==
    IF raw_days = <<>> THEN None
    ELSE IF Head(raw_days).id = day_id THEN Head(raw_days).date
         ELSE DateOfDayId(Tail(raw_days), day_id)

RECURSIVE OrganizeLoop(_, _, _)
OrganizeLoop(raw_days, raw_timeslots, timeslots_by_date) ==
    IF raw_timeslots = <<>> THEN timeslots_by_date
    ELSE LET timeslot == Head(raw_timeslots)
             date == DateOfDayId(raw_days, timeslot.day_id)
         IN  IF date # None
             THEN OrganizeLoop(raw_days, Tail(raw_timeslots),
                      [timeslots_by_date EXCEPT ![date] =
                          Append(@, <<timeslot.start, timeslot.end>>)])
             ELSE OrganizeLoop(raw_days, Tail(raw_timeslots), timeslots_by_date)

_organize_timeslots(raw) ==
    OrganizeLoop(raw.days, raw.timeslots,
        [date \in {raw.days[i].date : i \in 1..Len(raw.days)} |-> <<>>])

(***************************************************************************)
(* The queries.                                                            *)
(***************************************************************************)
get_busy_slots(date) ==
    IF date \notin DOMAIN timeslots THEN <<>>
    ELSE _merge_overlapping_slots(timeslots[date])

RECURSIVE FreeLoop(_, _, _)
FreeLoop(busy_slots, prev_end, free_slots) ==
    IF busy_slots = <<>> THEN <<prev_end, free_slots>>
    ELSE LET busy == _parse_time_range(Head(busy_slots)[1], Head(busy_slots)[2])
         IN  FreeLoop(Tail(busy_slots),
                      IntMax(prev_end, busy[2]),
                      IF busy[1] > prev_end
                      THEN Append(free_slots, <<_minutes_to_time(prev_end),
                                                _minutes_to_time(busy[1])>>)
                      ELSE free_slots)

(* get_free_slots without the free interval that ends the working day. *)
get_free_slots_no_tail(date) ==
    IF date \notin DOMAIN days THEN <<>>
    ELSE LET work_day == days[date]
             work == _parse_time_range(work_day.start, work_day.end)
         IN  FreeLoop(get_busy_slots(date), work[1], <<>>)[2]

get_free_slots(date) ==
    IF date \notin DOMAIN days THEN <<>>
    ELSE LET work_day == days[date]
             work == _parse_time_range(work_day.start, work_day.end)
             loop == FreeLoop(get_busy_slots(date), work[1], <<>>)
             prev_end == loop[1]
             free_slots == loop[2]
         IN  IF prev_end < work[2]
             THEN Append(free_slots, <<_minutes_to_time(prev_end),
                                       _minutes_to_time(work[2])>>)
             ELSE free_slots

(* is_available with the overlap test made strict: a request that touches
   a busy interval counts as overlapping it. *)
is_available_strict(date, start, end) ==
    IF date \notin DOMAIN days THEN FALSE
    ELSE LET work_day == days[date]
             work == _parse_time_range(work_day.start, work_day.end)
             slot == _parse_time_range(start, end)
             busy_slots == get_busy_slots(date)
         IN  IF slot[1] < work[1] \/ slot[2] > work[2] THEN FALSE
             ELSE \A i \in 1..Len(busy_slots) :
                     LET busy == _parse_time_range(busy_slots[i][1], busy_slots[i][2])
                     IN  slot[2] < busy[1] \/ slot[1] > busy[2]

(* is_available without the test that the request lies in the working day. *)
is_available_unbounded(date, start, end) ==
    IF date \notin DOMAIN days THEN FALSE
    ELSE LET slot == _parse_time_range(start, end)
             busy_slots == get_busy_slots(date)
         IN  \A i \in 1..Len(busy_slots) :
                LET busy == _parse_time_range(busy_slots[i][1], busy_slots[i][2])
                IN  slot[2] <= busy[1] \/ slot[1] >= busy[2]

is_available(date, start, end) ==
    IF date \notin DOMAIN days THEN FALSE
    ELSE LET work_day == days[date]
             work == _parse_time_range(work_day.start, work_day.end)
             slot == _parse_time_range(start, end)
             busy_slots == get_busy_slots(date)
         IN  IF slot[1] < work[1] \/ slot[2] > work[2] THEN FALSE
             ELSE \A i \in 1..Len(busy_slots) :
                     LET busy == _parse_time_range(busy_slots[i][1], busy_slots[i][2])
                     IN  slot[2] <= busy[1] \/ slot[1] >= busy[2]

(***************************************************************************)
(* sorted(self.days.keys()): the dates in ascending str order.             *)
(***************************************************************************)
RECURSIVE SortedDates(_)
SortedDates(S) ==
    IF S = {} THEN <<>>
    ELSE LET least == CHOOSE d \in S : \A e \in S : StrLe(d, e)
         IN  <<least>> \o SortedDates(S \ {least})

RECURSIVE FirstFit(_, _, _)
FirstFit(date, free_slots, duration_minutes) ==
    IF free_slots = <<>> THEN None
    ELSE LET start == Head(free_slots)[1]
             end == Head(free_slots)[2]
             start_min == _time_to_minutes(start)
             end_min == _time_to_minutes(end)
             available_duration == end_min - start_min
         IN  IF available_duration >= duration_minutes
             THEN <<date, start, _minutes_to_time(start_min + duration_minutes)>>
             ELSE FirstFit(date, Tail(free_slots), duration_minutes)

(* The loop over the dates without its early return: a later fit replaces
   an earlier one. *)
RECURSIVE FindLoop_no_return(_, _)
FindLoop_no_return(dates, duration_minutes) ==
    IF dates = <<>> THEN None
    ELSE LET found == FirstFit(Head(dates), get_free_slots(Head(dates)),
                               duration_minutes)
             later == FindLoop_no_return(Tail(dates), duration_minutes)
         IN  IF later # None THEN later ELSE found

RECURSIVE FindLoop(_, _)
FindLoop(dates, duration_minutes) ==
    IF dates = <<>> THEN None
    ELSE LET found == FirstFit(Head(dates), get_free_slots(Head(dates)),
                               duration_minutes)
         IN  IF found # None THEN found
             ELSE FindLoop(Tail(dates), duration_minutes)

(* find_slot_for_duration over self.days.keys() as the dict holds them,
   in the order the provider listed the days, without sorted(). *)
find_slot_for_duration_unsorted(duration_minutes) ==
    FindLoop([i \in 1..Len(data.days) |-> data.days[i].date], duration_minutes)

find_slot_for_duration(duration_minutes) ==
    FindLoop(SortedDates(DOMAIN days), duration_minutes)

(***************************************************************************)
(* KeyError: a dict is read at a key it does not hold.  Has(d, k) is       *)
(* "k in d"; the operators below say where each method reads which key,    *)
(* in the order the method reads them.                                     *)
(***************************************************************************)
Has(d, key) == key \in DOMAIN d

(* next(...) of _organize_timeslots reads day['id'] of each day up to the
   first one whose id matches. *)
RECURSIVE DateOfDayIdRaises(_, _)
DateOfDayIdRaises(raw_days, day_id) ==
    IF raw_days = <<>> THEN FALSE
    ELSE IF ~Has(Head(raw_days), "id") THEN TRUE
         ELSE IF Head(raw_days).id = day_id THEN FALSE
              ELSE DateOfDayIdRaises(Tail(raw_days), day_id)

RECURSIVE OrganizeLoopRaises(_, _)
OrganizeLoopRaises(raw_days, raw_timeslots) ==
    IF raw_timeslots = <<>> THEN FALSE
    ELSE LET timeslot == Head(raw_timeslots)
         IN  IF ~Has(timeslot, "day_id") THEN TRUE
             ELSE IF DateOfDayIdRaises(raw_days, timeslot.day_id) THEN TRUE
             ELSE IF /\ DateOfDayId(raw_days, timeslot.day_id) # None
                     /\ (~Has(timeslot, "start") \/ ~Has(timeslot, "end"))
                  THEN TRUE
                  ELSE OrganizeLoopRaises(raw_days, Tail(raw_timeslots))

(* Line 14 of __init__, the dict of the days, raises KeyError: self.days
   is not assigned. *)
BuildDaysRaises(raw) ==
    IF ~Has(raw, "days") THEN TRUE
    ELSE \E i \in 1..Len(raw.days) : ~Has(raw.days[i], "date")

(* Line 16 of __init__, _organize_timeslots, raises KeyError: self.days is
   assigned by then, self.timeslots is not. *)
OrganizeRaises(raw) ==
    IF ~Has(raw, "timeslots") THEN TRUE
    ELSE OrganizeLoopRaises(raw.days, raw.timeslots)

(* get_free_slots and is_available read work_day['start'], work_day['end']. *)
WorkDayRaises(date) ==
    /\ date \in DOMAIN days
    /\ (~Has(days[date], "start") \/ ~Has(days[date], "end"))

RECURSIVE FindLoopRaises(_, _)
FindLoopRaises(dates, duration_minutes) ==
    IF dates = <<>> THEN FALSE
    ELSE IF WorkDayRaises(Head(dates)) THEN TRUE
         ELSE IF FirstFit(Head(dates), get_free_slots(Head(dates)),
                          duration_minutes) # None
              THEN FALSE
              ELSE FindLoopRaises(Tail(dates), duration_minutes)

(***************************************************************************)
(* Provider payloads: what _fetch_data returns.                            *)
(***************************************************************************)
TimeStr(h, m) ==
    <<OrdZero + (h \div 10), OrdZero + (h % 10), OrdColon,
      OrdZero + (m \div 10), OrdZero + (m % 10)>>

DateStr(d) ==
    <<50, 48, 50, 52, OrdDash, 49, 48, OrdDash, OrdZero + (d \div 10), OrdZero + (d % 10)>>

Day(id, date, window) ==
    [id |-> id, date |-> date, start |-> window[1], end |-> window[2]]

Timeslot(id, day_id, interval) ==
    [id |-> id, day_id |-> day_id, start |-> interval[1], end |-> interval[2]]

IntervalsOver(times) == {<<s, e>> \in times \X times : StrLt(s, e)}

RECURSIVE TimeslotLists(_, _, _)
TimeslotLists(n, day_ids, intervals) ==
    IF n = 0 THEN {<<>>}
    ELSE LET shorter == TimeslotLists(n - 1, day_ids, intervals)
         IN  shorter \cup
             {Append(l, Timeslot(n, d, i)) :
                 l \in {x \in shorter : Len(x) = n - 1},
                 d \in day_ids, i \in intervals}

UnknownDate == DateStr(12)

(***************************************************************************)
(* One working day on a half-hour grid from 09:00 to 11:00; busy slots lie *)
(* before, across, inside and after the window, or name no day (day_id 3). *)
(***************************************************************************)
Times ==
    {TimeStr(9, 0), TimeStr(9, 30), TimeStr(10, 0), TimeStr(10, 30), TimeStr(11, 0)}

Windows ==
    {<<TimeStr(9, 30), TimeStr(10, 0)>>,
     <<TimeStr(9, 30), TimeStr(10, 30)>>,
     <<TimeStr(9, 0), TimeStr(11, 0)>>}

QueryDates == {DateStr(10), UnknownDate}

Payloads ==
    {[days |-> <<Day(1, DateStr(10), w)>>, timeslots |-> tl] :
        w \in Windows,
        tl \in TimeslotLists(MaxSlots, {1, 3}, IntervalsOver(Times))}

(***************************************************************************)
(* One or two working days, listed in either date order, for the search.   *)
(* With one day listed, a timeslot of day_id 2 names no day.               *)
(***************************************************************************)
SearchTimes == {TimeStr(9, 0), TimeStr(9, 30), TimeStr(10, 0), TimeStr(11, 0)}

SearchWindows ==
    {<<TimeStr(9, 0), TimeStr(11, 0)>>, <<TimeStr(9, 30), TimeStr(10, 0)>>}

SearchDates == {DateStr(10), DateStr(11)}

Durations == {15 * k : k \in 0..MaxDurationSteps}

SearchDayLists ==
    {<<Day(1, a, w)>> : a \in SearchDates, w \in SearchWindows}
    \cup {<<Day(1, ab[1], ww[1]), Day(2, ab[2], ww[2])>> :
            ab \in {x \in SearchDates \X SearchDates : x[1] # x[2]},
            ww \in SearchWindows \X SearchWindows}

SearchPayloads ==
    {[days |-> dl, timeslots |-> tl] :
        dl \in SearchDayLists,
        tl \in TimeslotLists(MaxSlots, {1, 2}, IntervalsOver(SearchTimes))}

(***************************************************************************)
(* The engine after construction, and its queries.                         *)
(***************************************************************************)
Constructed(raw) ==
    /\ data = raw
    /\ days = BuildDays(raw)
    /\ timeslots = _organize_timeslots(raw)
    /\ status = "ready"
    /\ call = [op |-> "idle"]
    /\ result = None

Init == \E raw \in Payloads : Constructed(raw)

GetBusySlots ==
    /\ status = "ready"
    /\ \E date \in QueryDates :
          /\ call' = [op |-> "get_busy_slots", date |-> date]
          /\ result' = get_busy_slots(date)
    /\ status' = "returned"
    /\ UNCHANGED <<data, days, timeslots>>

GetFreeSlotsOf(dates) ==
    /\ status = "ready"
    /\ \E date \in dates :
          /\ call' = [op |-> "get_free_slots", date |-> date]
          /\ IF WorkDayRaises(date)
             THEN result' = None /\ status' = "raised"
             ELSE result' = get_free_slots(date) /\ status' = "returned"
    /\ UNCHANGED <<data, days, timeslots>>

GetFreeSlots == GetFreeSlotsOf(QueryDates)

IsAvailable ==
    /\ status = "ready"
    /\ \E date \in QueryDates, start \in Times, end \in Times :
          /\ call' = [op |-> "is_available", date |-> date,
                      start |-> start, end |-> end]
          /\ IF WorkDayRaises(date)
             THEN result' = None /\ status' = "raised"
             ELSE result' = is_available(date, start, end) /\ status' = "returned"
    /\ UNCHANGED <<data, days, timeslots>>

(***************************************************************************)
(* The caller takes the returned value, or the KeyError a query raised,    *)
(* and is ready for its next query.                                        *)
(***************************************************************************)
Return ==
    /\ status \in {"returned", "raised"}
    /\ status' = "ready"
    /\ call' = [op |-> "idle"]
    /\ result' = None
    /\ UNCHANGED <<data, days, timeslots>>

Next == GetBusySlots \/ GetFreeSlots \/ IsAvailable \/ Return

Spec == Init /\ [][Next]_vars

(***************************************************************************)
(* The search over two days.                                               *)
(***************************************************************************)
SearchInit == \E raw \in SearchPayloads : Constructed(raw)

SearchFreeSlots == GetFreeSlotsOf(SearchDates \cup {UnknownDate})

FindSlotForDuration ==
    /\ status = "ready"
    /\ \E duration_minutes \in Durations :
          /\ call' = [op |-> "find_slot_for_duration", duration |-> duration_minutes]
          /\ IF FindLoopRaises(SortedDates(DOMAIN days), duration_minutes)
             THEN result' = None /\ status' = "raised"
             ELSE result' = find_slot_for_duration(duration_minutes)
                  /\ status' = "returned"
    /\ UNCHANGED <<data, days, timeslots>>

SearchNext == SearchFreeSlots \/ FindSlotForDuration \/ Return

SearchSpec == SearchInit /\ [][SearchNext]_vars

(***************************************************************************)
(* Construction on a payload that may lack a field.                        *)
(***************************************************************************)
Without(d, key) == [k \in (DOMAIN d) \ {key} |-> d[k]]

WithoutAt(list, i, key) == [list EXCEPT ![i] = Without(list[i], key)]

DayFields == {"id", "date", "start", "end"}

TimeslotFields == {"day_id", "start", "end"}

CompletePayloads ==
    {[days |-> <<Day(1, DateStr(10), w), Day(2, DateStr(11), w)>>,
      timeslots |-> <<Timeslot(1, 1, <<TimeStr(9, 30), TimeStr(10, 0)>>),
                      Timeslot(2, d, <<TimeStr(10, 0), TimeStr(10, 30)>>)>>] :
        w \in Windows, d \in {2, 3}}

LackingOneField(raw) ==
    {Without(raw, "days"), Without(raw, "timeslots")}
    \cup {[raw EXCEPT !.days = WithoutAt(raw.days, i, f)] :
            i \in 1..Len(raw.days), f \in DayFields}
    \cup {[raw EXCEPT !.timeslots = WithoutAt(raw.timeslots, i, f)] :
            i \in 1..Len(raw.timeslots), f \in TimeslotFields}

CtorPayloads == CompletePayloads \cup UNION {LackingOneField(raw) : raw \in CompletePayloads}

Complete(raw) ==
    /\ Has(raw, "days")
    /\ Has(raw, "timeslots")
    /\ \A i \in 1..Len(raw.days) : DayFields \subseteq DOMAIN raw.days[i]
    /\ \A i \in 1..Len(raw.timeslots) : TimeslotFields \subseteq DOMAIN raw.timeslots[i]

CtorInit ==
    /\ data \in CtorPayloads
    /\ days = None
    /\ timeslots = None
    /\ status = "fetched"
    /\ call = [op |-> "__init__"]
    /\ result = None

(* An attribute __init__ has not assigned is None here: self.days when line
   14 raises, self.timeslots when line 14 or line 16 raises. *)
Construct ==
    /\ status = "fetched"
    /\ IF BuildDaysRaises(data)
       THEN status' = "failed" /\ UNCHANGED <<days, timeslots>>
       ELSE IF OrganizeRaises(data)
            THEN /\ days' = BuildDays(data)
                 /\ status' = "failed"
                 /\ UNCHANGED timeslots
            ELSE /\ days' = BuildDays(data)
                 /\ timeslots' = _organize_timeslots(data)
                 /\ status' = "ready"
    /\ call' = [op |-> "idle"]
    /\ UNCHANGED <<data, result>>

CtorNext == Construct \/ Next \/ FindSlotForDuration

CtorSpec == CtorInit /\ [][CtorNext]_vars

(***************************************************************************)
(* _merge_overlapping_slots applied to a list of intervals, then to its    *)
(* own result.                                                             *)
(***************************************************************************)
MergeTimes == {TimeStr(9, 0), TimeStr(9, 30), TimeStr(10, 0), TimeStr(10, 30)}

RECURSIVE SlotLists(_)
SlotLists(n) ==
    IF n = 0 THEN {<<>>}
    ELSE LET shorter == SlotLists(n - 1)
         IN  shorter \cup
             {Append(l, x) : l \in {y \in shorter : Len(y) = n - 1},
                             x \in MergeTimes \X MergeTimes}

MergeInit ==
    /\ data = None
    /\ days = None
    /\ timeslots = None
    /\ status = "ready"
    /\ \E slots \in SlotLists(MaxLen) :
          call = [op |-> "_merge_overlapping_slots", slots |-> slots,
                  first |-> slots, pass |-> 0]
    /\ result = None

Merge ==
    /\ status = "ready"
    /\ call' = [call EXCEPT !.pass = 1]
    /\ result' = _merge_overlapping_slots(call.slots)
    /\ status' = "returned"
    /\ UNCHANGED <<data, days, timeslots>>

MergeAgain ==
    /\ status = "returned"
    /\ call.pass = 1
    /\ call' = [call EXCEPT !.slots = result, !.pass = 2]
    /\ result' = _merge_overlapping_slots(result)
    /\ UNCHANGED <<data, days, timeslots, status>>

MergeNext == Merge \/ MergeAgain

MergeSpec == MergeInit /\ [][MergeNext]_vars

(***************************************************************************)
(* Vocabulary of the properties: intervals as minutes since midnight.      *)
(***************************************************************************)
AsMinutes(slots) ==
    [i \in 1..Len(slots) |-> _parse_time_range(slots[i][1], slots[i][2])]

WorkWindow(date) == _parse_time_range(days[date].start, days[date].end)

Returned(op) == status = "returned" /\ call.op = op

ReturnedForKnownDate(op) == Returned(op) /\ call.date \in DOMAIN days

ContainsMinute(interval, m) == interval[1] <= m /\ m < interval[2]

(* C1: every interval get_free_slots returns for a known date is non-empty
   and lies within the working window of that date, wherever the busy
   slots of the date lie:  workStart <= start < end <= workEnd. *)
C1_FreeSlotsWithinWindow ==
    ReturnedForKnownDate("get_free_slots") =>
        LET free == AsMinutes(result)
            work == WorkWindow(call.date)
        IN  \A i \in 1..Len(free) :
               work[1] <= free[i][1] /\ free[i][1] < free[i][2] /\ free[i][2] <= work[2]

(* C2: is_available returns true exactly when the date is known, the
   request lies within the working window and every merged busy interval
   ends at or before the request starts or starts at or after it ends. *)
C2_IsAvailableExact ==
    Returned("is_available") =>
        LET request == _parse_time_range(call.start, call.end)
            busy == AsMinutes(get_busy_slots(call.date))
            expected ==
                IF call.date \notin DOMAIN days THEN FALSE
                ELSE /\ request[1] >= WorkWindow(call.date)[1]
                     /\ request[2] <= WorkWindow(call.date)[2]
                     /\ \A i \in 1..Len(busy) :
                           request[2] <= busy[i][1] \/ request[1] >= busy[i][2]
        IN  result = expected

C2_Witness ==
    /\ ReturnedForKnownDate("is_available")
    /\ result = TRUE
    /\ \E i \in 1..Len(get_busy_slots(call.date)) :
          get_busy_slots(call.date)[i][1] = call.end

(* C4: when every busy slot of a known date lies within its working window,
   the free and the merged busy intervals of the date cover each minute of
   the window exactly once and hold no minute outside the window. *)
BusyConfined(date) ==
    LET busy == AsMinutes(timeslots[date])
    IN  \A i \in 1..Len(busy) :
           WorkWindow(date)[1] <= busy[i][1] /\ busy[i][2] <= WorkWindow(date)[2]

C4_FreeBusyComplementary ==
    (ReturnedForKnownDate("get_free_slots") /\ BusyConfined(call.date)) =>
        LET pieces == AsMinutes(result \o get_busy_slots(call.date))
            work == WorkWindow(call.date)
        IN  /\ \A m \in work[1]..(work[2] - 1) :
                  Cardinality({i \in 1..Len(pieces) : ContainsMinute(pieces[i], m)}) = 1
            /\ \A i \in 1..Len(pieces) :
                  work[1] <= pieces[i][1] /\ pieces[i][2] <= work[2]

C4_Witness ==
    /\ ReturnedForKnownDate("get_free_slots")
    /\ BusyConfined(call.date)
    /\ Len(timeslots[call.date]) >= 2
    /\ Len(get_busy_slots(call.date)) = 2
    /\ Len(result) = 2

(* C5: every interval get_free_slots returns for a known date is available:
   is_available(date, start, end) is true for it. *)
C5_FreeSlotIsAvailable ==
    ReturnedForKnownDate("get_free_slots") =>
        \A i \in 1..Len(result) : is_available(call.date, result[i][1], result[i][2])

(* C10: when is_available accepts a request with start < end, one interval
   of get_free_slots of that date contains the whole request. *)
C10_AvailableWithinOneFreeSlot ==
    (Returned("is_available") /\ result = TRUE) =>
        LET request == _parse_time_range(call.start, call.end)
            free == AsMinutes(get_free_slots(call.date))
        IN  request[1] < request[2] =>
               \E i \in 1..Len(free) :
                  free[i][1] <= request[1] /\ request[2] <= free[i][2]

C10_Witness ==
    /\ Returned("is_available")
    /\ result = TRUE
    /\ StrLt(call.start, call.end)
    /\ Len(get_busy_slots(call.date)) >= 1
    /\ Len(get_free_slots(call.date)) = 2

(***************************************************************************)
(* The search.                                                             *)
(***************************************************************************)
DateStartLe(d1, s1, d2, s2) ==
    StrLt(d1, d2) \/ (d1 = d2 /\ _time_to_minutes(s1) <= _time_to_minutes(s2))

(* The (date, start, span) of every free slot of every known date that is
   at least d minutes long. *)
Fits(d) ==
    UNION {LET free == get_free_slots(date)
               mins == AsMinutes(free)
           IN  {<<date, free[i][1]>> :
                   i \in {j \in 1..Len(free) : mins[j][2] - mins[j][1] >= d}} :
           date \in DOMAIN days}

(* C3: find_slot_for_duration(d) returns (date, start, start + d) for the
   earliest (date, start), dates ascending and then starts ascending, of a
   free slot at least d minutes long, and none exactly when no free slot of
   any known date is that long. *)
C3_FirstFit ==
    Returned("find_slot_for_duration") =>
        LET d == call.duration
            fits == Fits(d)
        IN  IF fits = {} THEN result = None
            ELSE /\ result # None
                 /\ \E f \in fits :
                       /\ \A g \in fits : DateStartLe(f[1], f[2], g[1], g[2])
                       /\ LET end_min == _time_to_minutes(f[2]) + d
                          IN  result = <<f[1], f[2], TimeStr(end_min \div 60, end_min % 60)>>

C3_Witness ==
    /\ Returned("find_slot_for_duration")
    /\ result # None
    /\ Len(data.days) = 2
    /\ StrLt(data.days[2].date, data.days[1].date)
    /\ result[1] = data.days[1].date
    /\ \E i \in 2..Len(get_free_slots(result[1])) : get_free_slots(result[1])[i][1] = result[2]
    /\ call.duration % 30 = 15

(* C9: for durations d1 <= d2, when find_slot_for_duration(d2) finds a slot
   then find_slot_for_duration(d1) finds one too, and its (date, start) is
   no later than that of d2. *)
C9_SearchMonotone ==
    (Returned("find_slot_for_duration") /\ result # None) =>
        \A d1 \in {d \in Durations : d <= call.duration} :
            LET first == find_slot_for_duration(d1)
            IN  /\ first # None
                /\ DateStartLe(first[1], first[2], result[1], result[2])

C9_Witness ==
    /\ Returned("find_slot_for_duration")
    /\ result # None
    /\ \E d1 \in {d \in Durations : d <= call.duration} :
          /\ find_slot_for_duration(d1) # None
          /\ StrLt(find_slot_for_duration(d1)[1], result[1])

(***************************************************************************)
(* Construction.                                                           *)
(***************************************************************************)
(* C6: on a payload that lacks a required field construction fails and no
   engine is built: the engine is never ready, and no query ever raises,
   on such a payload. *)
C6_IncompletePayloadFailsConstruction ==
    (status \in {"ready", "returned", "raised"}) => Complete(data)

(***************************************************************************)
(* Merging.                                                                *)
(***************************************************************************)
Covers(intervals, m) ==
    \E i \in 1..Len(intervals) : ContainsMinute(intervals[i], m)

Minutes == 0..(24 * 60 - 1)

(* C7: for intervals with start < end the result of the merge is in
   ascending order with each start strictly after the previous end, and
   holds exactly the minutes the input holds; empty input, empty result. *)
C7_MergeCanonical ==
    (Returned("_merge_overlapping_slots") /\ call.pass = 1
        /\ \A i \in 1..Len(call.slots) : StrLt(call.slots[i][1], call.slots[i][2])) =>
        LET input == AsMinutes(call.slots)
            merged == AsMinutes(result)
        IN  /\ \A i \in 1..Len(merged) : merged[i][1] < merged[i][2]
            /\ \A i \in 1..(Len(merged) - 1) : merged[i + 1][1] > merged[i][2]
            /\ \A m \in Minutes : Covers(merged, m) <=> Covers(input, m)
            /\ (call.slots = <<>>) => (result = <<>>)

C7_Witness ==
    /\ Returned("_merge_overlapping_slots")
    /\ call.pass = 1
    /\ \A i \in 1..Len(call.slots) : StrLt(call.slots[i][1], call.slots[i][2])
    /\ Len(call.slots) = 3
    /\ call.slots[3][2] = call.slots[1][1]
    /\ Len(result) = 1

(* C8: merging the result of a merge returns it unchanged. *)
C8_MergeIdempotent ==
    (Returned("_merge_overlapping_slots") /\ call.pass = 2) => result = call.slots

C8_Witness ==
    /\ Returned("_merge_overlapping_slots")
    /\ call.pass = 2
    /\ Len(call.first) = 3
    /\ \A i \in 1..3 : StrLt(call.first[i][1], call.first[i][2])
    /\ StrLt(call.first[1][1], call.first[2][2])
    /\ StrLt(call.first[2][1], call.first[1][2])
    /\ Len(call.slots) = 2
    /\ Len(result) = 2

====
